---- MODULE Spec2Model ----
(***************************************************************************)
(* A model of the Data Cleaning App (src/data_cleaning_app.py): the        *)
(* Streamlit session state (uploaded table, stored table, operation log),  *)
(* the Column Operations form and the Advanced Filtering form of main().   *)
(*                                                                         *)
(* Text is a sequence of one-character strings, so that the predicate text *)
(* the filter form builds with f-strings, and the way DataFrame.query      *)
(* reads that text back (Python tokens, backtick-quoted names, string      *)
(* literals), are both modelled character by character.                    *)
(*                                                                         *)
(* One action is one run of main(): Streamlit re-executes the script from  *)
(* top to bottom on every widget change or button press, with the pressed  *)
(* button (at most one) returning True in that run only.  The expanders    *)
(* that are not modelled (column selection, type conversion, null          *)
(* handling, duplicates, outliers, sampling, export) are taken with their  *)
(* default widget values, which leave the working table as it is.          *)
(***************************************************************************)
EXTENDS Integers, Sequences, FiniteSets, TLC

\* ------------------------------------------------------------- bounds
\* Longest operand text typed into a condition's value input.
MaxLen == 2
\* Longest operation log (column operations applied in one session).
MaxOps == 2

\* ------------------------------------------------------------- text
Lower == {"a","b","c","d","e","f","g","h","i","j","k","l","m",
          "n","o","p","q","r","s","t","u","v","w","x","y","z"}
Digits == {"0","1","2","3","4","5","6","7","8","9"}
IdentChars == Lower \cup Digits \cup {"_"}

\* The characters of the model in code point order (Python compares str by
\* code point).
AsciiOrder == <<" ", "'", "(", ",", "0", "1", "2", "3", "4", "5", "6", "7",
                "8", "9", "_", "a", "d", "e", "g", "i", "m", "n", "x">>

CodePoint(c) == CHOOSE i \in 1..Len(AsciiOrder) : AsciiOrder[i] = c

\* str < str
RECURSIVE StrLess(_, _)
StrLess(a, b) ==
    IF b = <<>> THEN FALSE
    ELSE IF a = <<>> THEN TRUE
    ELSE IF a[1] = b[1] THEN StrLess(Tail(a), Tail(b))
    ELSE CodePoint(a[1]) < CodePoint(b[1])

\* needle in hay (str.__contains__; re.search of a pattern without
\* metacharacters)
IsSubstring(needle, hay) ==
    \E i \in 1..(Len(hay) - Len(needle) + 1) :
        SubSeq(hay, i, i + Len(needle) - 1) = needle

\* sep.join(parts)
RECURSIVE Join(_, _)
Join(sep, parts) ==
    IF parts = <<>> THEN <<>>
    ELSE IF Len(parts) = 1 THEN parts[1]
    ELSE parts[1] \o sep \o Join(sep, Tail(parts))

\* value.split(','): always at least one element
RECURSIVE SplitFrom(_, _, _)
SplitFrom(s, i, cur) ==
    IF i > Len(s) THEN <<cur>>
    ELSE IF s[i] = "," THEN <<cur>> \o SplitFrom(s, i + 1, <<>>)
    ELSE SplitFrom(s, i + 1, Append(cur, s[i]))

Split(value) == SplitFrom(value, 1, <<>>)

\* repr(str): double quotes when the text holds a single quote and no double
\* quote, else single quotes with backslash and single quote escaped.
RECURSIVE ReprBody(_, _)
ReprBody(s, q) ==
    IF s = <<>> THEN <<>>
    ELSE (IF s[1] = "\\" \/ s[1] = q THEN <<"\\", s[1]>> ELSE <<s[1]>>)
         \o ReprBody(Tail(s), q)

PyRepr(s) ==
    LET has(c) == \E i \in 1..Len(s) : s[i] = c
        q == IF has("'") /\ ~has("\"") THEN "\"" ELSE "'"
    IN  <<q>> \o ReprBody(s, q) \o <<q>>

\* repr(list of str), as an f-string formats value.split(',')
PyListRepr(parts) ==
    <<"[">> \o Join(<<",", " ">>, [i \in 1..Len(parts) |-> PyRepr(parts[i])])
            \o <<"]">>

\* str(int) for a non-negative int (Series.astype(str))
RECURSIVE IntToStr(_)
IntToStr(n) ==
    LET d == <<"0","1","2","3","4","5","6","7","8","9">>[(n % 10) + 1]
    IN  IF n < 10 THEN <<d>> ELSE IntToStr(n \div 10) \o <<d>>

\* Series.str.replace(search_term, replace_term, regex=False) on one value:
\* every non-overlapping occurrence, left to right (search_term non-empty)
RECURSIVE ReplaceAll(_, _, _)
ReplaceAll(s, find, repl) ==
    IF Len(s) < Len(find) \/ find = <<>> THEN s
    ELSE IF SubSeq(s, 1, Len(find)) = find
         THEN repl \o ReplaceAll(SubSeq(s, Len(find) + 1, Len(s)), find, repl)
         ELSE <<s[1]>> \o ReplaceAll(Tail(s), find, repl)

\* ------------------------------------------------------------ tables
\* A cell is an int or a str; a table is a DataFrame: column labels, one
\* dtype per column, the index labels and the rows.
I(n) == [k |-> "int", n |-> n, s |-> <<>>]
S(s) == [k |-> "str", n |-> 0, s |-> s]

None == [columns |-> <<>>, dtypes |-> <<>>, index |-> <<>>, data |-> <<>>,
         none |-> TRUE]

DataFrame(columns, dtypes, index, data) ==
    [columns |-> columns, dtypes |-> dtypes, index |-> index, data |-> data,
     none |-> FALSE]

ColumnSet(t) == {t.columns[i] : i \in 1..Len(t.columns)}

\* position of the (first) column labelled name
ColumnPos(t, name) == CHOOSE i \in 1..Len(t.columns) : t.columns[i] = name

RowCount(t) == Len(t.data)

\* df[mask]: the rows where the mask is true, index labels kept
RECURSIVE KeepFrom(_, _, _)
KeepFrom(rows, mask, i) ==
    IF i > Len(rows) THEN <<>>
    ELSE (IF mask[i] THEN <<rows[i]>> ELSE <<>>) \o KeepFrom(rows, mask, i + 1)

BooleanIndex(t, mask) ==
    [t EXCEPT !.index = KeepFrom(t.index, mask, 1),
              !.data = KeepFrom(t.data, mask, 1)]

\* ------------------------------------------- building the predicate
\* The operations of the condition form's selectbox, as their text.
OP_EQ == <<"=", "=">>
OP_NE == <<"!", "=">>
OP_GT == <<">">>
OP_LT == <<"<">>
OP_GE == <<">", "=">>
OP_LE == <<"<", "=">>
OP_IN == <<"i", "n">>
OP_NOT_IN == <<"n", "o", "t", " ", "i", "n">>
OP_CONTAINS == <<"c", "o", "n", "t", "a", "i", "n", "s">>
OP_NOT_CONTAINS == <<"n", "o", "t", " ">> \o OP_CONTAINS

Operations == {OP_EQ, OP_NE, OP_GT, OP_LT, OP_GE, OP_LE, OP_IN, OP_NOT_IN,
               OP_CONTAINS, OP_NOT_CONTAINS}

\* The backtick, which a string of this language cannot hold, by name.
Backtick == "BACKTICK"

sanitize_column_name(column_name) ==
    <<Backtick>> \o column_name \o <<Backtick>>

\* The condition text of one (column, operation, value) triple.
\* the condition text, had line 214 written "in" whatever the operation
ConditionAlwaysIn(c) ==
    IF c.operation \in {OP_IN, OP_NOT_IN}
    THEN sanitize_column_name(c.col) \o <<" ">> \o OP_IN \o <<" ">>
         \o PyListRepr(Split(c.value))
    ELSE IF c.operation \in {OP_CONTAINS, OP_NOT_CONTAINS}
    THEN sanitize_column_name(c.col) \o <<".", "s", "t", "r", ".">>
         \o c.operation \o <<"(", "'">> \o c.value \o <<"'", ")">>
    ELSE sanitize_column_name(c.col) \o <<" ">> \o c.operation
         \o <<" ", "'">> \o c.value \o <<"'">>

Condition(c) ==
    IF c.operation \in {OP_IN, OP_NOT_IN}
    THEN sanitize_column_name(c.col) \o <<" ">> \o c.operation \o <<" ">>
         \o PyListRepr(Split(c.value))
    ELSE IF c.operation \in {OP_CONTAINS, OP_NOT_CONTAINS}
    THEN (LET contains_op == IF c.operation = OP_CONTAINS
                             THEN OP_CONTAINS ELSE OP_NOT_CONTAINS
          IN  sanitize_column_name(c.col) \o <<".", "s", "t", "r", ".">>
              \o contains_op \o <<"(", "'">> \o c.value \o <<"'", ")">>)
    ELSE sanitize_column_name(c.col) \o <<" ">> \o c.operation
         \o <<" ", "'">> \o c.value \o <<"'">>

\* filter_conditions: one text per condition, in the order entered
FilterConditions(conds) == [i \in 1..Len(conds) |-> Condition(conds[i])]

combine_operator(combine_method) ==
    IF combine_method = "AND" THEN <<" ", "&", " ">> ELSE <<" ", "|", " ">>

query_string(conds, combine_method) ==
    Join(combine_operator(combine_method), FilterConditions(conds))

\* --------------------------------------------- DataFrame.query: tokens
\* pandas tokenizes the text with Python's tokenizer, joins what stands
\* between two backticks into one name, and reads & and | as and / or.
Tok(t, v) == [t |-> t, v |-> v]
ErrTok(kind) == <<Tok("ERR", kind)>>

\* least j >= i with s[j] = c, or 0
RECURSIVE FindChar(_, _, _)
FindChar(s, i, c) ==
    IF i > Len(s) THEN 0
    ELSE IF s[i] = c THEN i
    ELSE FindChar(s, i + 1, c)

\* what a backslash escape in a string literal stands for
Unescape(c) == IF c \in {"'", "\"", "\\"} THEN <<c>> ELSE <<"\\", c>>

\* A literal opened by one quote q, read from s[j]: end is the place of the
\* closing quote, 0 when the text ends first.
RECURSIVE ScanString(_, _, _, _)
ScanString(s, j, q, acc) ==
    IF j > Len(s) THEN [end |-> 0, v |-> acc]
    ELSE IF s[j] = q THEN [end |-> j, v |-> acc]
    ELSE IF s[j] = "\\"
         THEN IF j + 1 > Len(s) THEN [end |-> 0, v |-> acc]
              ELSE ScanString(s, j + 2, q, acc \o Unescape(s[j + 1]))
    ELSE ScanString(s, j + 1, q, Append(acc, s[j]))

\* A literal opened by three quotes, read from s[j]: end is the place of the
\* last of the three closing quotes, 0 when the text ends first.
RECURSIVE ScanTriple(_, _, _, _)
ScanTriple(s, j, q, acc) ==
    IF j + 2 > Len(s) THEN [end |-> 0, v |-> acc]
    ELSE IF s[j] = q /\ s[j + 1] = q /\ s[j + 2] = q
         THEN [end |-> j + 2, v |-> acc]
    ELSE IF s[j] = "\\"
         THEN ScanTriple(s, j + 2, q, acc \o Unescape(s[j + 1]))
    ELSE ScanTriple(s, j + 1, q, Append(acc, s[j]))

\* the last place of the run of identifier characters that starts at i
RECURSIVE WordEnd(_, _)
WordEnd(s, i) ==
    IF i + 1 <= Len(s) /\ s[i + 1] \in IdentChars THEN WordEnd(s, i + 1)
    ELSE i

WordToken(w) ==
    IF w = <<"i", "n">> THEN Tok("IN", w)
    ELSE IF w = <<"n", "o", "t">> THEN Tok("NOT", w)
    ELSE IF w = <<"a", "n", "d">> THEN Tok("AND", w)
    ELSE IF w = <<"o", "r">> THEN Tok("OR", w)
    ELSE IF w[1] \in Digits THEN Tok("NUMBER", w)
    ELSE Tok("NAME", w)

Punctuation(c) ==
    CASE c = "[" -> "LBRACK"
      [] c = "]" -> "RBRACK"
      [] c = "(" -> "LPAR"
      [] c = ")" -> "RPAR"
      [] c = "," -> "COMMA"
      [] c = "." -> "DOT"
      [] c = "&" -> "AND"
      [] c = "|" -> "OR"
      [] OTHER -> "ERR"

\* The tokens of s from place i on; a text that cannot be tokenized ends in
\* an ERR token.
RECURSIVE Lex(_, _)
Lex(s, i) ==
    IF i > Len(s) THEN <<>>
    ELSE LET c == s[i]
             two == IF i + 1 <= Len(s) THEN <<c, s[i + 1]>> ELSE <<c>>
         IN
         IF c = " " THEN Lex(s, i + 1)
         ELSE IF c = Backtick
         THEN LET j == FindChar(s, i + 1, Backtick)
              IN  IF j = 0 THEN ErrTok("SyntaxError")
                  ELSE <<Tok("BT", SubSeq(s, i + 1, j - 1))>> \o Lex(s, j + 1)
         ELSE IF c \in {"'", "\""}
         THEN IF i + 2 <= Len(s) /\ s[i + 1] = c /\ s[i + 2] = c
              THEN LET r == ScanTriple(s, i + 3, c, <<>>)
                   IN  IF r.end = 0 THEN ErrTok("TokenError")
                       ELSE <<Tok("STR", r.v)>> \o Lex(s, r.end + 1)
              ELSE LET r == ScanString(s, i + 1, c, <<>>)
                   IN  IF r.end = 0 THEN ErrTok("SyntaxError")
                       ELSE <<Tok("STR", r.v)>> \o Lex(s, r.end + 1)
         ELSE IF c \in IdentChars
         THEN LET e == WordEnd(s, i)
              IN  <<WordToken(SubSeq(s, i, e))>> \o Lex(s, e + 1)
         ELSE IF two \in {OP_EQ, OP_NE, OP_GE, OP_LE}
         THEN <<Tok("CMPOP", two)>> \o Lex(s, i + 2)
         ELSE IF <<c>> \in {OP_GT, OP_LT}
         THEN <<Tok("CMPOP", <<c>>)>> \o Lex(s, i + 1)
         ELSE IF Punctuation(c) # "ERR"
         THEN <<Tok(Punctuation(c), <<c>>)>> \o Lex(s, i + 1)
         ELSE ErrTok("SyntaxError")

Tokenize(s) == Lex(s, 1)

\* --------------------------------------------- DataFrame.query: parse
\* The predicate, parsed with Python's precedence (or below and below a
\* comparison): a disjunction of conjunctions of conditions.  The condition
\* forms are the three the filter form writes; any other token sequence the
\* operand texts of the model can produce is a syntax error in Python too
\* (a name or number next to a string literal, a keyword after a dot).
Cond(kind, col, op, lit, list) ==
    [kind |-> kind, col |-> col, op |-> op, lit |-> lit, list |-> list]
BadCond == Cond("error", <<>>, <<>>, <<>>, <<>>)

AllStr(toks) == \A i \in 1..Len(toks) : toks[i].t = "STR"

\* adjacent string literals are one literal
RECURSIVE ConcatStr(_)
ConcatStr(toks) ==
    IF toks = <<>> THEN <<>> ELSE toks[1].v \o ConcatStr(Tail(toks))

\* the runs of tokens between the tokens of type t
RECURSIVE SplitAt(_, _, _)
SplitAt(toks, t, cur) ==
    IF toks = <<>> THEN <<cur>>
    ELSE IF toks[1].t = t THEN <<cur>> \o SplitAt(Tail(toks), t, <<>>)
    ELSE SplitAt(Tail(toks), t, Append(cur, toks[1]))

ParseList(inner) ==
    LET items == SplitAt(inner, "COMMA", <<>>)
    IN  IF \A i \in 1..Len(items) : items[i] # <<>> /\ AllStr(items[i])
        THEN [ok |-> TRUE, v |-> [i \in 1..Len(items) |-> ConcatStr(items[i])]]
        ELSE [ok |-> FALSE, v |-> <<>>]

ParseCondition(seg) ==
    LET n == Len(seg)
        rest(k) == SubSeq(seg, k, n)
    IN
    IF n < 3 \/ seg[1].t # "BT" THEN BadCond
    ELSE IF seg[2].t = "CMPOP"
    THEN IF AllStr(rest(3))
         THEN Cond("cmp", seg[1].v, seg[2].v, ConcatStr(rest(3)), <<>>)
         ELSE BadCond
    ELSE IF seg[2].t = "IN" \/ (seg[2].t = "NOT" /\ seg[3].t = "IN")
    THEN LET k == IF seg[2].t = "IN" THEN 3 ELSE 4
             op == IF seg[2].t = "IN" THEN OP_IN ELSE OP_NOT_IN
         IN  IF n > k /\ seg[k].t = "LBRACK" /\ seg[n].t = "RBRACK"
                /\ ParseList(SubSeq(seg, k + 1, n - 1)).ok
             THEN Cond("in", seg[1].v, op, <<>>,
                       ParseList(SubSeq(seg, k + 1, n - 1)).v)
             ELSE BadCond
    ELSE IF n >= 8 /\ seg[2].t = "DOT"
            /\ seg[3].t = "NAME" /\ seg[3].v = <<"s", "t", "r">>
            /\ seg[4].t = "DOT"
            /\ seg[5].t = "NAME" /\ seg[5].v = OP_CONTAINS
            /\ seg[6].t = "LPAR" /\ seg[n].t = "RPAR"
            /\ AllStr(SubSeq(seg, 7, n - 1))
    THEN Cond("contains", seg[1].v, OP_CONTAINS,
              ConcatStr(SubSeq(seg, 7, n - 1)), <<>>)
    ELSE BadCond

\* The conditions of a token sequence: the runs between or, each split at
\* and.
Disjuncts(toks) ==
    [i \in 1..Len(SplitAt(toks, "OR", <<>>)) |->
        [j \in 1..Len(SplitAt(SplitAt(toks, "OR", <<>>)[i], "AND", <<>>)) |->
            ParseCondition(SplitAt(SplitAt(toks, "OR", <<>>)[i], "AND", <<>>)[j])]]

Parsed(ast) ==
    IF \E i \in 1..Len(ast) : \E j \in 1..Len(ast[i]) : ast[i][j].kind = "error"
    THEN [error |-> "SyntaxError", ast |-> <<>>]
    ELSE [error |-> "", ast |-> ast]

ParseTokens(toks) ==
    IF toks # <<>> /\ toks[Len(toks)].t = "ERR"
    THEN [error |-> toks[Len(toks)].v, ast |-> <<>>]
    ELSE Parsed(Disjuncts(toks))

\* error and disjuncts: each disjunct a sequence of conditions
ParseQuery(text) == ParseTokens(Tokenize(text))

\* ------------------------------------------ DataFrame.query: evaluate
Engines == {"python", "numexpr"}

\* Why one condition cannot be evaluated on t ("" when it can).
CondError(t, c, engine) ==
    IF c.col \notin ColumnSet(t) THEN "UndefinedVariableError"
    ELSE LET dtype == t.dtypes[ColumnPos(t, c.col)]
         IN  IF c.kind = "contains"
             THEN (IF dtype = "object" THEN "" ELSE "AttributeError")
             ELSE IF c.kind = "cmp" /\ c.op \notin {OP_EQ, OP_NE}
             THEN (IF dtype = "object" /\ engine = "python" THEN ""
                   ELSE "TypeError")
             ELSE ""

\* The truth of one condition on one cell.  A == or != against a string
\* literal is rewritten by pandas to a membership test in [literal]; an int
\* is no member of a list of str.
CondHolds(cell, c) ==
    IF c.kind = "in"
    THEN LET member == cell.k = "str"
                       /\ \E i \in 1..Len(c.list) : c.list[i] = cell.s
         IN  IF c.op = OP_IN THEN member ELSE ~member
    ELSE IF c.kind = "contains" THEN IsSubstring(c.lit, cell.s)
    ELSE IF c.op = OP_EQ THEN cell.k = "str" /\ cell.s = c.lit
    ELSE IF c.op = OP_NE THEN ~(cell.k = "str" /\ cell.s = c.lit)
    ELSE IF c.op = OP_GT THEN StrLess(c.lit, cell.s)
    ELSE IF c.op = OP_LT THEN StrLess(cell.s, c.lit)
    ELSE IF c.op = OP_GE THEN ~StrLess(cell.s, c.lit)
    ELSE ~StrLess(c.lit, cell.s)

\* the first error in evaluation order, "" when there is none
RECURSIVE FirstError(_)
FirstError(errs) ==
    IF errs = <<>> THEN ""
    ELSE IF errs[1] # "" THEN errs[1]
    ELSE FirstError(Tail(errs))

RECURSIVE Flatten(_)
Flatten(ss) == IF ss = <<>> THEN <<>> ELSE ss[1] \o Flatten(Tail(ss))

\* The mask of a parsed predicate on t: the first error of its conditions,
\* or per row the disjunction of the conjunctions.
FirstCondError(t, conds, engine) ==
    FirstError([i \in 1..Len(conds) |-> CondError(t, conds[i], engine)])

MaskOf(t, p, engine) ==
    IF p.error # "" THEN [error |-> p.error, mask |-> <<>>]
    ELSE IF FirstCondError(t, Flatten(p.ast), engine) # ""
    THEN [error |-> FirstCondError(t, Flatten(p.ast), engine), mask |-> <<>>]
    ELSE [error |-> "",
          mask |-> [r \in 1..RowCount(t) |->
              \E i \in 1..Len(p.ast) : \A j \in 1..Len(p.ast[i]) :
                  CondHolds(t.data[r][ColumnPos(t, p.ast[i][j].col)],
                            p.ast[i][j])]]

\* pandas.eval of the predicate on t: an error, or the boolean mask
EvalMask(t, text, engine) == MaskOf(t, ParseQuery(text), engine)

Selected(t, m) ==
    IF m.error # "" THEN [error |-> m.error, df |-> None]
    ELSE [error |-> "", df |-> BooleanIndex(t, m.mask)]

\* df.query(text): raises (error # ""), or returns the rows the mask keeps
Query(t, text, engine) == Selected(t, EvalMask(t, text, engine))

\* apply_advanced_filter(df, filter_conditions): the conditions joined with
\* and; on any exception the error is reported and df returned as it was.
ExceptionKinds == {"SyntaxError", "TokenError", "UndefinedVariableError",
                   "TypeError", "AttributeError", "KeyError",
                   "ZeroDivisionError", "re.error"}

\* the handler, had it been written "except SyntaxError": the errors of the
\* evaluation itself (TypeError, AttributeError) would leave the run
CatchesSyntaxOnly(kind) == kind \in {"SyntaxError", "TokenError"}

\* except Exception as e: every exception kind of the model derives from it
Catches(kind) == kind \in ExceptionKinds

\* try: return df.query(...)  except Exception: st.error(...); return df
Handled(t, q) ==
    IF q.error = "" THEN [df |-> q.df, reported |-> "", raised |-> ""]
    ELSE IF Catches(q.error)
    THEN [df |-> t, reported |-> q.error, raised |-> ""]
    ELSE [df |-> None, reported |-> "", raised |-> q.error]

apply_advanced_filter(t, filter_conditions, engine) ==
    Handled(t, Query(t, Join(<<" ", "a", "n", "d", " ">>, filter_conditions), engine))

\* ------------------------------------------------------------ inputs
age == <<"a", "g", "e">>
name == <<"n", "a", "m", "e">>
id == <<"i", "d">>
first_name == <<"f", "i", "r", "s", "t", " ", "n", "a", "m", "e">>
new == <<"n", "e", "w">>

\* What pd.read_csv makes of the uploaded files of the model: an int64 and
\* an object column each, index 0..n-1.
People ==
    DataFrame(<<age, name>>, <<"int64", "object">>, <<0, 1, 2>>,
              << <<I(1), S(<<"a">>)>>,
                 <<I(2), S(<<"a", "'">>)>>,
                 <<I(4), S(<<"2">>)>> >>)
Guests ==
    DataFrame(<<id, first_name>>, <<"int64", "object">>, <<0, 1, 2>>,
              << <<I(2), S(<<"a">>)>>,
                 <<I(2), S(<<"a">>)>>,
                 <<I(3), S(<<"a", "2">>)>> >>)
UploadTables == {People, Guests}

\* The characters typed into a value input.  No text of the model holds both
\* a quote and a comma (a comma outside a literal makes a tuple or a second
\* call argument, which the parser above does not read).
OperandChars == {"a", "2", "'", ",", " "}
Has(v, c) == \E i \in 1..Len(v) : v[i] = c
Values ==
    {v \in UNION {[1..n -> OperandChars] : n \in 0..MaxLen} :
        ~(Has(v, "'") /\ Has(v, ","))}
SessionValues == {<<>>, <<"a">>}
PairValues == {<<>>, <<"a">>, <<"'">>}

\* The texts entered in the Column Operations form.
NewNames == {new}
SearchTerms == {<<"a">>}
ReplaceTerms == {<<"2">>, <<"(">>}
\* Python expressions for "Create new column": df['age'], 2 and 1/0
Expressions == {<<"d", "f", "[", "'">> \o age \o <<"'", "]">>,
                <<"2">>,
                <<"1", "/", "0">>}

\* ------------------------------------------------------------- state
VARIABLES
    engine,             \* pandas' expression engine: numexpr when installed
    df,                 \* st.session_state.df
    renamed_df,         \* st.session_state.renamed_df
    column_operations,  \* st.session_state.column_operations
    conditions,         \* the condition widgets: col, operation, value
    combine_method,     \* the "Combine conditions using" selectbox
    df_filtered,        \* the filtered view the last run displayed
    message,            \* what the last run reported
    num_replaced,       \* the count the last run reported
    uncaught            \* the exception that ended the last run, if any

session == <<df, renamed_df, column_operations>>
widgets == <<conditions, combine_method>>
output == <<df_filtered, message, num_replaced, uncaught>>
vars == <<engine, df, renamed_df, column_operations, conditions,
          combine_method, df_filtered, message, num_replaced, uncaught>>

\* The table a run works on: renamed_df if it exists, otherwise the upload
\* (line 55), copied by df[selected_columns] at line 70, so that what a run
\* assigns into its table reaches the session state only where the run
\* stores the table.  The widgets of lines 63-147 (column selection, type
\* conversion, null values, duplicates, outliers) stay as first rendered,
\* where they leave the copy as it is; line 52 reads the same file in every
\* run, so the upload is the same table throughout.
Working == IF renamed_df.none THEN df ELSE renamed_df

\* A condition's widgets as first rendered: the first column, the first
\* operation, an empty text.
DefaultCondition(t) == [col |-> t.columns[1], operation |-> OP_EQ, value |-> <<>>]

\* A selectbox whose stored choice is no longer among its options shows the
\* first option.
Rendered(conds, t) ==
    [i \in 1..Len(conds) |->
        IF conds[i].col \in ColumnSet(t) THEN conds[i]
        ELSE [conds[i] EXCEPT !.col = t.columns[1]]]

\* a run that reports nothing
NoOutput ==
    /\ df_filtered' = None
    /\ message' = ""
    /\ num_replaced' = 0
    /\ uncaught' = ""

Report(msg) ==
    /\ df_filtered' = None
    /\ message' = msg
    /\ num_replaced' = 0
    /\ uncaught' = ""

\* ------------------------------------------------- column operations
\* df.rename(columns={old_name: new_name})
RenameColumn(t, old_name, new_name) ==
    [t EXCEPT !.columns = [i \in 1..Len(t.columns) |->
        IF t.columns[i] = old_name THEN new_name ELSE t.columns[i]]]

\* eval(expression) with df in scope, for the expression forms df['<label>'],
\* a decimal literal and a division by zero: the value, or the exception.
PyEval(expression, t) ==
    LET n == Len(expression)
        label == SubSeq(expression, 5, n - 2)
        failed(kind) == [error |-> kind, dtype |-> "", cells |-> <<>>]
    IN
    IF n >= 6 /\ SubSeq(expression, 1, 4) = <<"d", "f", "[", "'">>
       /\ SubSeq(expression, n - 1, n) = <<"'", "]">> /\ ~Has(label, "'")
    THEN IF label \in ColumnSet(t)
         THEN [error |-> "", dtype |-> t.dtypes[ColumnPos(t, label)],
               cells |-> [r \in 1..RowCount(t) |-> t.data[r][ColumnPos(t, label)]]]
         ELSE failed("KeyError")
    ELSE IF n = 1 /\ expression[1] \in Digits
    THEN [error |-> "", dtype |-> "int64",
          cells |-> [r \in 1..RowCount(t) |->
                        I(CHOOSE d \in 0..9 : IntToStr(d) = expression)]]
    ELSE IF expression = <<"1", "/", "0">> THEN failed("ZeroDivisionError")
    ELSE failed("SyntaxError")

\* df[label] = cells: the column replaced, or added as the last one
SetColumn(t, label, dtype, cells) ==
    IF label \in ColumnSet(t)
    THEN LET p == ColumnPos(t, label)
         IN  [t EXCEPT !.dtypes[p] = dtype,
                       !.data = [r \in 1..RowCount(t) |->
                                    [t.data[r] EXCEPT ![p] = cells[r]]]]
    ELSE [t EXCEPT !.columns = Append(t.columns, label),
                   !.dtypes = Append(t.dtypes, dtype),
                   !.data = [r \in 1..RowCount(t) |-> Append(t.data[r], cells[r])]]

\* str(cell)
CellText(cell) == IF cell.k = "int" THEN IntToStr(cell.n) ELSE cell.s

\* df[column].astype(str).str.replace(search_term, replace_term, regex=False)
ReplaceInColumn(t, column, search_term, replace_term) ==
    LET p == ColumnPos(t, column)
    IN  [t EXCEPT !.dtypes[p] = "object",
                  !.data = [r \in 1..RowCount(t) |->
                      [t.data[r] EXCEPT ![p] =
                          S(ReplaceAll(CellText(t.data[r][p]), search_term,
                                       replace_term))]]]

\* re.compile(pattern) succeeds: of the texts of the model, only an
\* unclosed parenthesis is no regular expression
RegexCompiles(pattern) == ~Has(pattern, "(")

\* the non-overlapping occurrences of a pattern without metacharacters
RECURSIVE CountOccurrences(_, _)
CountOccurrences(text, pattern) ==
    IF Len(text) < Len(pattern) THEN 0
    ELSE IF SubSeq(text, 1, Len(pattern)) = pattern
         THEN 1 + CountOccurrences(SubSeq(text, Len(pattern) + 1, Len(text)), pattern)
         ELSE CountOccurrences(Tail(text), pattern)

\* df[column].str.count(replace_term).sum()
RECURSIVE SumCounts(_, _, _, _)
SumCounts(t, p, pattern, r) ==
    IF r > RowCount(t) THEN 0
    ELSE CountOccurrences(t.data[r][p].s, pattern) + SumCounts(t, p, pattern, r + 1)

\* ------------------------------------------------------------ actions
\* Each action is one run of main().  A run without an uploaded file stops
\* at line 50; every other run renders the condition widgets (line 207)
\* against the working table as the run's column operation left it.

Init ==
    /\ engine \in Engines
    /\ df = None
    /\ renamed_df = None
    /\ column_operations = <<>>
    /\ conditions = <<>>
    /\ combine_method = "AND"
    /\ df_filtered = None
    /\ message = ""
    /\ num_replaced = 0
    /\ uncaught = ""

\* A file is chosen in the uploader (one file per session: the uploader is
\* not used again).  The run reads it and renders the filter form.
Upload(t) ==
    /\ df.none
    /\ df' = t
    /\ conditions' = <<DefaultCondition(t)>>
    /\ NoOutput
    /\ UNCHANGED <<engine, renamed_df, column_operations, combine_method>>

\* A widget of the filter form is changed: a run in which no button is
\* pressed.
SelectColumn(i, col) ==
    /\ ~df.none
    /\ col \in ColumnSet(Working)
    /\ col # conditions[i].col
    /\ conditions' = [conditions EXCEPT ![i].col = col]
    /\ NoOutput
    /\ UNCHANGED <<engine, session, combine_method>>

SelectOperation(i, operation) ==
    /\ ~df.none
    /\ operation \in Operations
    /\ operation # conditions[i].operation
    /\ conditions' = [conditions EXCEPT ![i].operation = operation]
    /\ NoOutput
    /\ UNCHANGED <<engine, session, combine_method>>

\* The value input is cleared, or one more character is typed into it.
EditValue(i, values) ==
    /\ ~df.none
    /\ \E v \in values :
        /\ v # conditions[i].value
        /\ \/ v = <<>>
           \/ /\ Len(v) = Len(conditions[i].value) + 1
              /\ SubSeq(v, 1, Len(v) - 1) = conditions[i].value
        /\ conditions' = [conditions EXCEPT ![i].value = v]
    /\ NoOutput
    /\ UNCHANGED <<engine, session, combine_method>>

SelectCombine(method) ==
    /\ ~df.none
    /\ method \in {"AND", "OR"}
    /\ method # combine_method
    /\ combine_method' = method
    /\ NoOutput
    /\ UNCHANGED <<engine, session, conditions>>

\* Lines 156-159 with the renamed table t.
Renamed(t, old_name, new_name) ==
    /\ column_operations' =
           Append(column_operations, <<"rename", old_name, new_name>>)
    /\ renamed_df' = t
    /\ conditions' = Rendered(conditions, t)
    /\ Report("Column renamed successfully")

\* "Rename" is pressed.
Rename(old_name, new_name) ==
    /\ ~df.none
    /\ Len(column_operations) < MaxOps
    /\ old_name \in ColumnSet(Working)
    /\ new_name \notin ColumnSet(Working) \ {old_name}
    /\ Renamed(RenameColumn(Working, old_name, new_name), old_name, new_name)
    /\ UNCHANGED <<engine, df, combine_method>>

\* the Create branch, had line 166 (the append) stood before the eval of
\* line 165: a failed expression would be logged
CreatedLogsFailure(new_col_name, expression, v) ==
    IF v.error = ""
    THEN /\ column_operations' =
               Append(column_operations, <<"create", new_col_name, expression>>)
         /\ renamed_df' = SetColumn(Working, new_col_name, v.dtype, v.cells)
         /\ conditions' = Rendered(conditions, renamed_df')
         /\ Report("New column created successfully")
    ELSE /\ column_operations' =
               Append(column_operations, <<"create", new_col_name, expression>>)
         /\ UNCHANGED <<renamed_df, conditions>>
         /\ df_filtered' = None
         /\ message' = IF Catches(v.error) THEN "Error creating column" ELSE ""
         /\ num_replaced' = 0
         /\ uncaught' = IF Catches(v.error) THEN "" ELSE v.error

\* df[new_col_name] = eval(expression) inside try / except Exception
Created(new_col_name, expression, v) ==
    IF v.error = ""
    THEN /\ column_operations' =
               Append(column_operations, <<"create", new_col_name, expression>>)
         /\ renamed_df' = SetColumn(Working, new_col_name, v.dtype, v.cells)
         /\ conditions' = Rendered(conditions, renamed_df')
         /\ Report("New column created successfully")
    ELSE /\ UNCHANGED <<column_operations, renamed_df, conditions>>
         /\ df_filtered' = None
         /\ message' = IF Catches(v.error) THEN "Error creating column" ELSE ""
         /\ num_replaced' = 0
         /\ uncaught' = IF Catches(v.error) THEN "" ELSE v.error

\* "Create" is pressed.
Create(new_col_name, expression) ==
    /\ ~df.none
    /\ Len(column_operations) < MaxOps
    /\ Created(new_col_name, expression, PyEval(expression, Working))
    /\ UNCHANGED <<engine, df, combine_method>>

\* Lines 181-184 with t, the run's table after lines 178 and 180 replaced
\* its column.
Replaced(t, column, search_term, replace_term) ==
    IF RegexCompiles(replace_term)
    THEN /\ column_operations' =
               Append(column_operations,
                      <<"search_replace", column, search_term, replace_term>>)
         /\ renamed_df' = t
         /\ conditions' = Rendered(conditions, t)
         /\ df_filtered' = None
         /\ message' = "Replaced"
         /\ num_replaced' = SumCounts(t, ColumnPos(t, column), replace_term, 1)
         /\ uncaught' = ""
    ELSE /\ UNCHANGED <<column_operations, renamed_df, conditions>>
         /\ df_filtered' = None
         /\ message' = ""
         /\ num_replaced' = 0
         /\ uncaught' = "re.error"

\* "Apply Search and Replace" is pressed.  str.count reads replace_term as a
\* regular expression and raises, outside any try, when it is none: the run
\* ends before the log and the stored table are written.
SearchAndReplace(column, search_term, replace_term) ==
    /\ ~df.none
    /\ Len(column_operations) < MaxOps
    /\ column \in ColumnSet(Working)
    /\ Replaced(ReplaceInColumn(Working, column, search_term, replace_term),
                column, search_term, replace_term)
    /\ UNCHANGED <<engine, df, combine_method>>

\* What the try / except Exception around df.query leaves: the filtered
\* view, or the reported error.
Display(q) ==
    IF q.error = ""
    THEN /\ df_filtered' = q.df
         /\ message' = "Filtered DataFrame"
         /\ uncaught' = ""
    ELSE /\ df_filtered' = None
         /\ message' = IF Catches(q.error) THEN "Error applying filter" ELSE ""
         /\ uncaught' = IF Catches(q.error) THEN "" ELSE q.error

\* Apply Filters, had it stored its view as the working table (filtering in
\* place)
ApplyFiltersInPlace ==
    /\ ~df.none
    /\ Display(Query(Working, query_string(conditions, combine_method), engine))
    /\ renamed_df' = IF Query(Working, query_string(conditions, combine_method),
                              engine).error = ""
                     THEN Query(Working, query_string(conditions, combine_method),
                                engine).df
                     ELSE renamed_df
    /\ num_replaced' = 0
    /\ UNCHANGED <<engine, df, column_operations, widgets>>

\* "Apply Filters" is pressed: the conditions are joined with the chosen
\* operator and the working table queried inside try / except Exception.
\* The filtered view is displayed, the session state is not written.
ApplyFilters ==
    /\ ~df.none
    /\ Display(Query(Working, query_string(conditions, combine_method), engine))
    /\ num_replaced' = 0
    /\ UNCHANGED <<engine, session, widgets>>

\* "Update Main DataFrame with Filtered Data" is pressed.  The button is
\* created inside the branch of st.button("Apply Filters"); in the run its
\* press starts, st.button("Apply Filters") returns False, so lines 228-242
\* are not executed: nothing is stored and the filtered view is gone.
UpdateMainDataFrame ==
    /\ message = "Filtered DataFrame"
    /\ NoOutput
    /\ UNCHANGED <<engine, session, widgets>>

\* ---------------------------------------------------- specifications
\* The session: uploads, the filter form with one condition, the column
\* operations.
FilterForm(values) ==
    \E i \in 1..Len(conditions) :
        \/ \E col \in ColumnSet(Working) : SelectColumn(i, col)
        \/ \E operation \in Operations : SelectOperation(i, operation)
        \/ EditValue(i, values)

Next ==
    \/ \E t \in UploadTables : Upload(t)
    \/ FilterForm(SessionValues)
    \/ \E method \in {"AND", "OR"} : SelectCombine(method)
    \/ \E old_name \in ColumnSet(Working), new_name \in NewNames :
           Rename(old_name, new_name)
    \/ \E new_col_name \in NewNames, expression \in Expressions :
           Create(new_col_name, expression)
    \/ \E column \in ColumnSet(Working), search_term \in SearchTerms,
          replace_term \in ReplaceTerms :
           SearchAndReplace(column, search_term, replace_term)
    \/ ApplyFilters
    \/ UpdateMainDataFrame

Spec == Init /\ [][Next]_vars

\* The evaluator on one condition: every operand text up to MaxLen, on each
\* uploaded table.
InitEval ==
    /\ engine \in Engines
    /\ df \in UploadTables
    /\ renamed_df = None
    /\ column_operations = <<>>
    /\ conditions = <<DefaultCondition(df)>>
    /\ combine_method = "AND"
    /\ df_filtered = None
    /\ message = ""
    /\ num_replaced = 0
    /\ uncaught = ""

NextEval ==
    \/ FilterForm(Values)
    \/ \E method \in {"AND", "OR"} : SelectCombine(method)
    \/ ApplyFilters
    \/ UpdateMainDataFrame

SpecEval == InitEval /\ [][NextEval]_vars

\* The evaluator on two conditions (the number input set to 2).
InitPair ==
    /\ engine \in Engines
    /\ df \in UploadTables
    /\ renamed_df = None
    /\ column_operations = <<>>
    /\ conditions = <<DefaultCondition(df), DefaultCondition(df)>>
    /\ combine_method = "AND"
    /\ df_filtered = None
    /\ message = ""
    /\ num_replaced = 0
    /\ uncaught = ""

NextPair ==
    \/ FilterForm(PairValues)
    \/ \E method \in {"AND", "OR"} : SelectCombine(method)
    \/ ApplyFilters
    \/ UpdateMainDataFrame

SpecPair == InitPair /\ [][NextPair]_vars

\* ------------------------------------------------------ properties
\* What the formulas below read from a state.
Applied == message \in {"Filtered DataFrame", "Error applying filter"}
Succeeded == message = "Filtered DataFrame"
Single == Len(conditions) = 1

IndexSet(t) == {t.index[i] : i \in 1..Len(t.index)}
\* the rows the last run returned, by index label
Returned == IF Succeeded THEN IndexSet(df_filtered) ELSE {}
\* the rows a query of the working table returns, none when it raises
RowsOf(text) == IndexSet(Query(Working, text, engine).df)
Raises(text) == Query(Working, text, engine).error # ""
AllRows == IndexSet(Working)
Cell(r, col) == Working.data[r][ColumnPos(Working, col)]
DtypeOf(col) == Working.dtypes[ColumnPos(Working, col)]
Comparisons == {OP_EQ, OP_NE, OP_GT, OP_LT, OP_GE, OP_LE}

IsNumericText(v) == v # <<>> /\ \A i \in 1..Len(v) : v[i] \in Digits
RECURSIVE NumberOf(_)
NumberOf(v) ==
    IF v = <<>> THEN 0
    ELSE 10 * NumberOf(SubSeq(v, 1, Len(v) - 1))
         + (CHOOSE d \in 0..9 : IntToStr(d) = <<v[Len(v)]>>)

Compare(a, op, b) ==
    IF op = OP_EQ THEN a = b
    ELSE IF op = OP_NE THEN a # b
    ELSE IF op = OP_GT THEN a > b
    ELSE IF op = OP_LT THEN a < b
    ELSE IF op = OP_GE THEN a >= b
    ELSE a <= b

\* text without its leading and trailing spaces
RECURSIVE Strip(_)
Strip(v) ==
    IF v # <<>> /\ v[1] = " " THEN Strip(Tail(v))
    ELSE IF v # <<>> /\ v[Len(v)] = " " THEN Strip(SubSeq(v, 1, Len(v) - 1))
    ELSE v
Trimmed(value) ==
    Join(<<",">>, [i \in 1..Len(Split(value)) |-> Strip(Split(value)[i])])

WithOperation(c, operation) == [c EXCEPT !.operation = operation]

\* C1: when the evaluation of the combined predicate fails, the run reports
\* the error, shows no filtered view and leaves the upload, the stored table
\* and the log as they were; no exception of the evaluation ends a run; and
\* apply_advanced_filter on the same conditions raises nothing and returns
\* the table it was given whenever it reports an error.
QueryErrors == {"SyntaxError", "TokenError", "UndefinedVariableError",
                "TypeError", "AttributeError"}
C1_ErrorStep ==
    /\ uncaught' \notin QueryErrors
    /\ message' = "Error applying filter" =>
          /\ df' = df
          /\ renamed_df' = renamed_df
          /\ column_operations' = column_operations
          /\ df_filtered' = None
C1_Helper ==
    ~df.none =>
        /\ apply_advanced_filter(Working, FilterConditions(conditions), engine).raised = ""
        /\ apply_advanced_filter(Working, FilterConditions(conditions), engine).reported # ""
              => apply_advanced_filter(Working, FilterConditions(conditions), engine).df = Working
C1_EvaluationErrorLeavesTable == [][C1_ErrorStep]_vars /\ []C1_Helper
\* a failed evaluation on a stored table that a column operation produced
C1_Witness ==
    /\ message = "Error applying filter"
    /\ ~renamed_df.none
    /\ apply_advanced_filter(Working, FilterConditions(conditions), engine).reported # ""

\* C2: a comparison on a numeric column with a numeric operand text returns
\* exactly the rows whose number compares so with the parsed operand; on a
\* text column it returns the rows whose text compares so with the operand.
C2_NumericOperandParsed ==
    (Applied /\ Single /\ conditions[1].operation \in Comparisons) =>
        LET c == conditions[1]
        IN  /\ (DtypeOf(c.col) = "int64" /\ IsNumericText(c.value)) =>
                  /\ Succeeded
                  /\ Returned = {Working.index[r] : r \in
                        {r \in 1..RowCount(Working) :
                            Compare(Cell(r, c.col).n, c.operation, NumberOf(c.value))}}
            /\ (DtypeOf(c.col) = "object" /\ c.operation \in {OP_EQ, OP_NE}) =>
                  /\ Succeeded
                  /\ Returned = {Working.index[r] : r \in
                        {r \in 1..RowCount(Working) :
                            (c.operation = OP_EQ) <=> (Cell(r, c.col).s = c.value)}}

\* C3: contains and not_contains with the same substring both evaluate
\* without error, and every row is returned by exactly one of the two.
C3_ContainsPartition ==
    (Applied /\ Single /\ conditions[1].operation \in {OP_CONTAINS, OP_NOT_CONTAINS}) =>
        LET yes == Condition(WithOperation(conditions[1], OP_CONTAINS))
            no == Condition(WithOperation(conditions[1], OP_NOT_CONTAINS))
        IN  /\ Succeeded
            /\ ~Raises(yes) /\ ~Raises(no)
            /\ RowsOf(yes) \cup RowsOf(no) = AllRows
            /\ RowsOf(yes) \cap RowsOf(no) = {}

\* C4: in and not_in with the same operand list both evaluate, and every row
\* is returned by exactly one of the two: by the run's own result and by the
\* evaluation of the opposite condition.
Opposite(operation) == IF operation = OP_IN THEN OP_NOT_IN ELSE OP_IN
C4_InNotInPartition ==
    (Applied /\ Single /\ conditions[1].operation \in {OP_IN, OP_NOT_IN}) =>
        LET other == Condition(WithOperation(conditions[1],
                                             Opposite(conditions[1].operation)))
        IN  /\ Succeeded
            /\ ~Raises(other)
            /\ Returned \cup RowsOf(other) = AllRows
            /\ Returned \cap RowsOf(other) = {}
\* an in-list that keeps some rows and leaves some to not_in
C4_Witness ==
    /\ Succeeded /\ Single
    /\ conditions[1].operation = OP_IN
    /\ Len(Split(conditions[1].value)) = 2
    /\ Returned # {} /\ Returned # AllRows

\* C5: for two conditions the specification accepts (a comparison on a
\* numeric column has a numeric operand text), the AND-combination returns a
\* subset of what each returns alone and the OR-combination a superset.
Accepted(c) ==
    (c.operation \in Comparisons /\ DtypeOf(c.col) = "int64") => IsNumericText(c.value)
C5_AndSubsetOrSuperset ==
    (Applied /\ Len(conditions) = 2 /\ Accepted(conditions[1]) /\ Accepted(conditions[2])) =>
        LET r1 == RowsOf(Condition(conditions[1]))
            r2 == RowsOf(Condition(conditions[2]))
        IN  IF combine_method = "AND"
            THEN Returned \subseteq r1 /\ Returned \subseteq r2
            ELSE r1 \subseteq Returned /\ r2 \subseteq Returned

\* C6: an eq condition whose operand is a value present in the column (of
\* any type) returns at least the rows holding that value.
C6_EqReturnsPresentValue ==
    (Applied /\ Single /\ conditions[1].operation = OP_EQ) =>
        \A r \in 1..RowCount(Working) :
            CellText(Cell(r, conditions[1].col)) = conditions[1].value
                => Working.index[r] \in Returned

\* C7: the elements of an in / not_in operand are trimmed before the test:
\* the run returns what the same condition with trimmed elements returns.
C7_ListElementsTrimmed ==
    (Applied /\ Single /\ conditions[1].operation \in {OP_IN, OP_NOT_IN}) =>
        /\ Succeeded
        /\ Returned = RowsOf(Condition([conditions[1] EXCEPT
                                           !.value = Trimmed(conditions[1].value)]))

\* C8: whatever the operand (a quote included), an eq / ne / contains
\* condition on a text column compares against the operand verbatim: it
\* evaluates, and returns the rows whose text equals (differs from, holds)
\* the operand.
C8_OperandVerbatim ==
    (Applied /\ Single /\ DtypeOf(conditions[1].col) = "object"
       /\ conditions[1].operation \in {OP_EQ, OP_NE, OP_CONTAINS}) =>
        LET c == conditions[1]
        IN  /\ Succeeded
            /\ Returned = {Working.index[r] : r \in
                  {r \in 1..RowCount(Working) :
                      IF c.operation = OP_CONTAINS
                      THEN IsSubstring(c.value, Cell(r, c.col).s)
                      ELSE (c.operation = OP_EQ) <=> (Cell(r, c.col).s = c.value)}}

\* C9: the log only grows, by one tuple at its end, in exactly the steps
\* that report a rename, a created column or a replacement; the tuple names
\* the operation and its parameters, and the stored table becomes the new
\* state in the same step; a failed create-column changes neither; the
\* stored table is never replaced without an append.
LastOp == column_operations'[Len(column_operations')]
Grew ==
    /\ Len(column_operations') = Len(column_operations) + 1
    /\ SubSeq(column_operations', 1, Len(column_operations)) = column_operations
C9_LogStep ==
    /\ Grew \/ column_operations' = column_operations
    /\ Grew <=> message' \in {"Column renamed successfully",
                              "New column created successfully", "Replaced"}
    /\ message' = "Column renamed successfully" =>
          /\ LastOp[1] = "rename" /\ Len(LastOp) = 3
          /\ renamed_df' = RenameColumn(Working, LastOp[2], LastOp[3])
    /\ message' = "New column created successfully" =>
          /\ LastOp[1] = "create" /\ Len(LastOp) = 3
          /\ LastOp[2] \in ColumnSet(renamed_df')
          /\ PyEval(LastOp[3], Working).error = ""
    /\ message' = "Replaced" =>
          /\ LastOp[1] = "search_replace" /\ Len(LastOp) = 4
          /\ renamed_df' = ReplaceInColumn(Working, LastOp[2], LastOp[3], LastOp[4])
    /\ message' = "Error creating column" =>
          column_operations' = column_operations /\ renamed_df' = renamed_df
    /\ renamed_df' # renamed_df => Grew
C9_LogAppendOnly == [][C9_LogStep]_vars
\* a rename then a replacement, both logged in order
C9_Witness ==
    /\ Len(column_operations) = 2
    /\ column_operations[1][1] = "rename"
    /\ column_operations[2][1] = "search_replace"
    /\ message = "Replaced"
    /\ ~renamed_df.none

\* C10: a run of Apply Filters, failed or not, leaves the upload, the stored
\* table and the log as they were; its view is a selection of rows of the
\* whole working table; and a step that replaces the stored table without a
\* column operation, if any, follows a successful evaluation and stores its
\* view.
C10_ApplyStep ==
    /\ message' \in {"Filtered DataFrame", "Error applying filter"} =>
          /\ df' = df
          /\ renamed_df' = renamed_df
          /\ column_operations' = column_operations
    /\ message' = "Filtered DataFrame" =>
          /\ IndexSet(df_filtered') \subseteq AllRows
          /\ df_filtered' = BooleanIndex(Working,
                [r \in 1..RowCount(Working) |->
                    Working.index[r] \in IndexSet(df_filtered')])
    /\ (renamed_df' # renamed_df /\ column_operations' = column_operations) =>
          /\ message = "Filtered DataFrame"
          /\ renamed_df' = df_filtered
====
